---------------------------- MODULE Spec2Model ----------------------------
(***************************************************************************)
(* Model of SuperAIAgent (src/coding-agent.py): task validation,           *)
(* dependency-aware execution, recovery / re-planning and the              *)
(* checkpoint / resume engine.                                             *)
(*                                                                         *)
(* The planning oracle (send_to_api's HTTP call) and the external tools    *)
(* (subprocesses, file system) are nondeterministic inputs.  Python        *)
(* objects are modelled by value:                                          *)
(*   - a task dict is a record with one field per key the engine reads;    *)
(*     the string "None" stands for a missing key / Python None;           *)
(*   - task_results is a dict whose keys are Python ints (written by       *)
(*     execute_task) or strings (produced by json.load): a key is the      *)
(*     pair <<"int", i>> or <<"str", i>>;                                  *)
(*   - the call stack of the recursive execute_tasks is the sequence       *)
(*     `stack` of frames, the innermost call last.                         *)
(***************************************************************************)
EXTENDS Integers, Sequences, FiniteSets, TLC

VARIABLES
    self,        \* the fields of the SuperAIAgent object (ProjectState)
    fs,          \* file system: path -> content, or NoFile
    dirs,        \* existing directories
    linters,     \* linter binaries found by shutil.which
    state_file,  \* agent_state.json: <<>> or <<the JSON document>>; under
                 \* SpecSave also <<document, k>>, the file while it is
                 \* written, holding the first k chunks of the document
    pc,          \* position of process_command
    stack,       \* activation records of execute_tasks
    oracle,      \* the batches the planning oracle may answer with
    budget,      \* oracle answers that may still be non-empty
    lastRequest, \* the last request send_to_api made: <<>> or <<request>>
    report       \* the completeness report last computed: <<>> or <<report>>

vars == <<self, fs, dirs, linters, state_file, pc, stack, oracle, budget,
          lastRequest, report>>

---------------------------------------------------------------------------
(* Bounds of the model *)

\* planning requests the oracle answers in one behaviour of Spec; once they
\* are used up it answers every further request with an empty batch
MaxCalls == 2
\* the same for SpecReplan, whose oracle only returns unusable batches
MaxReplanCalls == 5
\* the longest Features list among the inputs of SpecScore
MaxFeatures == 2
\* the writes json.dump makes for one document under SpecSave
SaveChunks == 2
\* the oracle's non-empty answers under SpecTools
MaxToolCalls == 2

---------------------------------------------------------------------------
(* Values *)

None == "None"
NoFile == "NoFile"

Valid == "valid"
Rejected == "rejected"
Raised == "raised"

\* self.supported_actions
supported_actions ==
    {"create_directory", "create_venv", "set_language", "create_file",
     "modify_file", "delete_file", "install_dependency", "init_git",
     "git_commit", "git_branch", "git_push", "run_script", "create_test",
     "run_test", "generate_docs", "run_lint"}

\* self.supported_linters.get(language)
supported_linters(language) ==
    IF language = "python" THEN "flake8"
    ELSE IF language = "nodejs" THEN "eslint"
    ELSE None

\* Path(path).is_absolute(): the path starts at the file system root
is_absolute(path) == path \in {"/abs/app.py"}

\* re.search(r'[<>:"|?*\x00-\x1F]', path)
has_illegal_chars(path) == path \in {"what?.py"}

\* "app." in f or "test_" in f or f.endswith(".md")
is_key_file(f) ==
    f \in {"app.py", "test_app.py", "/abs/app.py", "proj/app.py", "proj/test_app.py",
           "proj/app.js"}

\* hashlib.md5(content.encode()).hexdigest(): injective on the contents used
md5(content) == <<"md5", content>>

\* a task dict as returned by the oracle; task.get(k) of an absent key is None
Task(action, path, content, feature, depends_on) ==
    [action |-> action, path |-> path, content |-> content,
     feature |-> feature, depends_on |-> depends_on,
     tool |-> None, fix |-> FALSE, language |-> None, package |-> None]

\* `if path:` in validate_task
HasPath(task) == task.path # None

\* the key under which execute_task and check_dependencies address task_results
IntKey(i) == <<"int", i>>
\* the key json.dump writes and json.load reads back
StrKey(i) == <<"str", i>>

Range(s) == {s[k] : k \in 1..Len(s)}

\* lst.append(x) whether or not x is in lst
AppendNew_always(lst, x) == Append(lst, x)

\* lst.append(x) if x not in lst
AppendNew(lst, x) == IF x \in Range(lst) THEN lst ELSE Append(lst, x)

\* [f for f in lst if f != x]
RECURSIVE Without(_, _)
Without(lst, x) ==
    IF lst = <<>> THEN <<>>
    ELSE IF Head(lst) = x THEN Without(Tail(lst), x)
    ELSE <<Head(lst)>> \o Without(Tail(lst), x)


---------------------------------------------------------------------------
(* The agent object *)

\* Path(s) and str(Path); NoPath is a venv_path of None
PathOf(s) == <<"Path", s>>
StrOfPath(p) == p[2]
NoPath == <<"None">>
\* Path(a) / b
JoinPath(a, b) == <<a, b>>

\* __init__: the fields that ProjectState consists of
InitSelf ==
    [project_root |-> None, language |-> "python", venv_path |-> NoPath,
     task_results |-> <<>>, created_files |-> <<>>, installed_deps |-> <<>>,
     linting_results |-> <<>>, test_results |-> <<>>, features |-> <<>>,
     task_history |-> <<>>, file_hashes |-> <<>>, current_iteration |-> 0,
     command |-> None, api_model |-> None]

\* the file at a path, NoFile when there is none
FileAt(files, path) == IF path \in DOMAIN files THEN files[path] ELSE NoFile

\* dict[key] = value
DictSet(d, key, value) ==
    [k \in DOMAIN d \cup {key} |-> IF k = key THEN value ELSE d[k]]

---------------------------------------------------------------------------
(* Context Summarizer: its effect on the Fingerprint Store *)

Max(S, default) == IF S = {} THEN default ELSE CHOOSE m \in S : \A x \in S : m >= x

\* the sort key of recent_files: the latest timestamp of a history entry
\* whose task has this path, "1970-01-01" (0) when there is none
LastTouch(ag, x) ==
    Max({ag.task_history[k].timestamp :
            k \in {j \in 1..Len(ag.task_history) :
                      ag.task_history[j].task.path = x}}, 0)

RECURSIVE InsertByTouch(_, _, _)
InsertByTouch(sorted, x, ag) ==
    IF sorted = <<>> THEN <<x>>
    ELSE IF LastTouch(ag, Head(sorted)) >= LastTouch(ag, x)
         THEN <<Head(sorted)>> \o InsertByTouch(Tail(sorted), x, ag)
         ELSE <<x>> \o sorted

\* sorted(created_files, key=..., reverse=True): stable, latest first
RECURSIVE SortByTouch(_, _, _)
SortByTouch(lst, acc, ag) ==
    IF lst = <<>> THEN acc
    ELSE SortByTouch(Tail(lst), InsertByTouch(acc, Head(lst), ag), ag)

\* set(key_files + recent_files) of get_context_summary
SummarisedFiles(ag) ==
    LET sorted == SortByTouch(ag.created_files, <<>>, ag)
        recent_files == SubSeq(sorted, 1, IF Len(sorted) < 3 THEN Len(sorted) ELSE 3)
    IN  {f \in Range(ag.created_files) : is_key_file(f)} \cup Range(recent_files)

\* get_file_summary over those files: every one that exists gets its
\* current content hash written into file_hashes
get_context_summary(ag, files) ==
    LET read == {f \in SummarisedFiles(ag) : FileAt(files, f) # NoFile}
    IN  [ag EXCEPT !.file_hashes =
            [p \in DOMAIN ag.file_hashes \cup read |->
                IF p \in read THEN md5(files[p]) ELSE ag.file_hashes[p]]]

---------------------------------------------------------------------------
(* Completeness Assessor *)

\* production_features
production_features ==
    <<"authentication", "database", "logging", "docker", "ci_cd">>

\* Path(path).parent
ParentOf(path) ==
    IF path \in {"proj/app.py", "proj/test_app.py", "proj/app.js"} THEN "proj"
    ELSE IF path = "/abs/app.py" THEN "/abs"
    ELSE IF path = "../../etc/passwd" THEN "../../etc"
    ELSE "."

\* the name of the path matches the glob pattern
Matches(path, pattern) ==
    IF pattern = "*.py"
    THEN path \in {"app.py", "test_app.py", "/abs/app.py", "proj/app.py", "proj/test_app.py"}
    ELSE IF pattern = "test_*.py" THEN path \in {"test_app.py", "proj/test_app.py"}
    ELSE IF pattern = "*.js" THEN path \in {"proj/app.js"}
    ELSE FALSE

\* list(Path(root).glob(pattern)): the files directly in the directory; empty
\* when the directory does not exist
glob(root, pattern, files, ds) ==
    IF root \notin ds THEN {}
    ELSE {p \in DOMAIN files :
             files[p] # NoFile /\ ParentOf(p) = root /\ Matches(p, pattern)}

\* "Passed" in result, for an entry of test_results
TestPassed(result) == result[2] = "Passed"

\* "Passed" in result or "Fixed" in result, for an entry of linting_results
LintPassed(result) == result[4] = "Passed" \/ result[3] = "Fixed issues with autopep8"

\* [x for x in lst if x in allowed]
RECURSIVE Filter(_, _)
Filter(lst, allowed) ==
    IF lst = <<>> THEN <<>>
    ELSE IF Head(lst) \in allowed THEN <<Head(lst)>> \o Filter(Tail(lst), allowed)
    ELSE Filter(Tail(lst), allowed)

\* an assessment that takes 40 points off when the tests are failing
assess_penalising(ag, files, ds) ==
    LET python == ag.language = "python"
        main_files == IF ag.project_root = None THEN {}
                      ELSE glob(ag.project_root, IF python THEN "*.py" ELSE "*.js", files, ds)
        test_files == IF ag.project_root = None THEN {}
                      ELSE glob(ag.project_root, IF python THEN "test_*.py" ELSE "test_*.js", files, ds)
        passing_tests == Cardinality({k \in 1..Len(ag.test_results) : TestPassed(ag.test_results[k])})
        linting_passed == \A k \in 1..Len(ag.linting_results) : LintPassed(ag.linting_results[k])
        implemented == Filter(ag.features, Range(production_features))
        missing_features == Filter(production_features,
                                   Range(production_features) \ Range(implemented))
        score == (IF main_files # {} THEN 20 ELSE 0)
                 + (IF test_files # {} THEN 20 ELSE 0)
                 + (IF passing_tests > 0 THEN 20 ELSE IF test_files # {} THEN -40 ELSE 0)
                 + (IF linting_passed THEN 20 ELSE 0)
                 + Len(implemented) * 4
    IN  [score |-> score, issues |-> <<>>,
         is_complete |-> score >= 80,
         missing_features |-> missing_features]

\* an assessment that reports completion from the score alone
assess_lenient(ag, files, ds) ==
    LET python == ag.language = "python"
        main_files == IF ag.project_root = None THEN {}
                      ELSE glob(ag.project_root, IF python THEN "*.py" ELSE "*.js", files, ds)
        test_files == IF ag.project_root = None THEN {}
                      ELSE glob(ag.project_root, IF python THEN "test_*.py" ELSE "test_*.js", files, ds)
        passing_tests == Cardinality({k \in 1..Len(ag.test_results) : TestPassed(ag.test_results[k])})
        linting_passed == \A k \in 1..Len(ag.linting_results) : LintPassed(ag.linting_results[k])
        implemented == Filter(ag.features, Range(production_features))
        missing_features == Filter(production_features,
                                   Range(production_features) \ Range(implemented))
        score == (IF main_files # {} THEN 20 ELSE 0)
                 + (IF test_files # {} THEN 20 ELSE 0)
                 + (IF passing_tests > 0 THEN 20 ELSE 0)
                 + (IF linting_passed THEN 20 ELSE 0)
                 + Len(implemented) * 4
        issues == (IF main_files # {} THEN <<>> ELSE <<"No main script found">>)
                  \o (IF test_files # {} THEN <<>> ELSE <<"No test files found">>)
                  \o (IF passing_tests = 0 /\ test_files # {} THEN <<"Tests are failing">> ELSE <<>>)
                  \o (IF linting_passed THEN <<>> ELSE <<"Linting issues detected">>)
                  \o (IF missing_features # <<>> THEN <<"Missing production features">> ELSE <<>>)
    IN  [score |-> score, issues |-> issues,
         is_complete |-> score >= 80,
         missing_features |-> missing_features]

\* assess_project_completeness
assess_project_completeness(ag, files, ds) ==
    LET python == ag.language = "python"
        main_files == IF ag.project_root = None THEN {}
                      ELSE glob(ag.project_root, IF python THEN "*.py" ELSE "*.js", files, ds)
        test_files == IF ag.project_root = None THEN {}
                      ELSE glob(ag.project_root, IF python THEN "test_*.py" ELSE "test_*.js", files, ds)
        passing_tests == Cardinality({k \in 1..Len(ag.test_results) : TestPassed(ag.test_results[k])})
        linting_passed == \A k \in 1..Len(ag.linting_results) : LintPassed(ag.linting_results[k])
        implemented == Filter(ag.features, Range(production_features))
        missing_features == Filter(production_features,
                                   Range(production_features) \ Range(implemented))
        score == (IF main_files # {} THEN 20 ELSE 0)
                 + (IF test_files # {} THEN 20 ELSE 0)
                 + (IF passing_tests > 0 THEN 20 ELSE 0)
                 + (IF linting_passed THEN 20 ELSE 0)
                 + Len(implemented) * 4
        issues == (IF main_files # {} THEN <<>> ELSE <<"No main script found">>)
                  \o (IF test_files # {} THEN <<>> ELSE <<"No test files found">>)
                  \o (IF passing_tests = 0 /\ test_files # {} THEN <<"Tests are failing">> ELSE <<>>)
                  \o (IF linting_passed THEN <<>> ELSE <<"Linting issues detected">>)
                  \o (IF missing_features # <<>> THEN <<"Missing production features">> ELSE <<>>)
    IN  [score |-> score, issues |-> issues,
         is_complete |-> (score >= 80 /\ issues = <<>>),
         missing_features |-> missing_features]

---------------------------------------------------------------------------
(* Checkpoint Manager *)

\* json.dump turns every dict key into a string; the string keys loaded
\* earlier precede the int keys written since, and json.load keeps the last
\* of two equal keys, so the int key's value survives
JsonKeys(task_results) ==
    [k \in {StrKey(key[2]) : key \in DOMAIN task_results} |->
        IF IntKey(k[2]) \in DOMAIN task_results
        THEN task_results[IntKey(k[2])]
        ELSE task_results[k]]

\* the JSON document save_state writes to agent_state.json; an optional
\* string is <<>> (null) or <<s>>
JsonDump(ag) ==
    [project_root |-> ag.project_root,
     language |-> ag.language,
     venv_path |-> IF ag.venv_path # NoPath THEN <<StrOfPath(ag.venv_path)>> ELSE <<>>,
     task_results |-> JsonKeys(ag.task_results),
     created_files |-> ag.created_files,
     installed_deps |-> ag.installed_deps,
     linting_results |-> ag.linting_results,
     test_results |-> ag.test_results,
     features |-> ag.features,
     task_history |-> ag.task_history,
     file_hashes |-> ag.file_hashes,
     current_iteration |-> ag.current_iteration,
     command |-> ag.command,
     api_model |-> ag.api_model]

\* the fields load_state assigns from the document
JsonLoad(doc) ==
    [project_root |-> doc.project_root,
     language |-> doc.language,
     venv_path |-> IF doc.venv_path # <<>> THEN PathOf(doc.venv_path[1]) ELSE NoPath,
     task_results |-> doc.task_results,
     created_files |-> doc.created_files,
     installed_deps |-> doc.installed_deps,
     linting_results |-> doc.linting_results,
     test_results |-> doc.test_results,
     features |-> doc.features,
     task_history |-> doc.task_history,
     file_hashes |-> doc.file_hashes,
     current_iteration |-> doc.current_iteration,
     command |-> doc.command,
     api_model |-> doc.api_model]

\* a load_state that does not look at the project root
load_state_unguarded(file, ds) == file # <<>>

\* load_state's return value; file is <<>> when agent_state.json does not
\* exist and <<doc>> when it holds the document doc
load_state(file, ds) ==
    /\ file # <<>>
    /\ file[1].project_root = None \/ file[1].project_root \in ds

---------------------------------------------------------------------------
(* Task Validator *)

\* validate_task reaches the linter lookup, shutil.which(tool)
ReachesLinterLookup(task, ag) ==
    /\ task.action = "run_lint"
    /\ ~(HasPath(task) /\ ag.project_root # None /\ is_absolute(task.path))
    /\ ~(HasPath(task) /\ has_illegal_chars(task.path))
    /\ task.tool = supported_linters(ag.language)

\* validate_task: Valid (True), Rejected (False) or Raised (an exception
\* leaves the function).  installOk: the outcome of install_linter, if run.
validate_task(task, task_index, tasks, ag, files, tools, installOk) ==
    IF task.action \notin supported_actions THEN Rejected
    ELSE IF HasPath(task) /\ ag.project_root # None /\ is_absolute(task.path)
         THEN Raised   \* PosixPath has no attribute startswith
    ELSE IF HasPath(task) /\ has_illegal_chars(task.path) THEN Rejected
    ELSE IF task.action = "run_lint" /\ task.tool # supported_linters(ag.language)
         THEN Rejected
    ELSE IF task.action = "run_lint" /\ task.tool = None
         THEN Raised   \* shutil.which(None)
    ELSE IF task.action = "run_lint" /\ task.tool \notin tools /\ ~installOk
         THEN Rejected
    ELSE IF \E k \in 1..Len(task.depends_on) :
                task.depends_on[k] >= Len(tasks) \/ task.depends_on[k] < 0
         THEN Rejected
    ELSE IF task.feature \in Range(ag.features)
            /\ task.action \in {"create_file", "install_dependency"}
         THEN Rejected
    ELSE IF task.action = "modify_file" /\ task.path \in DOMAIN ag.file_hashes
         THEN IF FileAt(files, task.path) = NoFile THEN Raised  \* open() fails
              ELSE IF md5(files[task.path]) = ag.file_hashes[task.path]
                   THEN Rejected
                   ELSE Valid
    ELSE Valid

\* a validation loop that validates each task against the state the valid
\* tasks before it would leave: their language and their features
RECURSIVE ValidateLoop_threading(_, _, _, _, _, _)
ValidateLoop_threading(tasks, k, ag, files, tools, installOk) ==
    IF k > Len(tasks) THEN [verdicts |-> <<>>, linters |-> tools]
    ELSE LET task == tasks[k]
             v == validate_task(task, k - 1, tasks, ag, files, tools, installOk[k])
             installed == ReachesLinterLookup(task, ag) /\ task.tool # None
                          /\ task.tool \notin tools /\ installOk[k]
             tools2 == IF installed THEN tools \cup {task.tool} ELSE tools
             ag2 == IF v # Valid THEN ag
                    ELSE IF task.action = "set_language"
                    THEN [ag EXCEPT !.language = task.language]
                    ELSE IF task.action = "create_file"
                    THEN [ag EXCEPT !.features = AppendNew(@, task.feature)]
                    ELSE ag
         IN  IF v = Raised THEN [verdicts |-> <<Raised>>, linters |-> tools2]
             ELSE LET rest == ValidateLoop_threading(tasks, k + 1, ag2, files, tools2, installOk)
                  IN  [verdicts |-> <<v>> \o rest.verdicts,
                       linters |-> rest.linters]

\* the validation loop of execute_tasks: the verdicts in task order, up to
\* and including the first exception, and the linters present afterwards
RECURSIVE ValidateLoop(_, _, _, _, _, _)
ValidateLoop(tasks, k, ag, files, tools, installOk) ==
    IF k > Len(tasks) THEN [verdicts |-> <<>>, linters |-> tools]
    ELSE LET task == tasks[k]
             v == validate_task(task, k - 1, tasks, ag, files, tools, installOk[k])
             installed == ReachesLinterLookup(task, ag) /\ task.tool # None
                          /\ task.tool \notin tools /\ installOk[k]
             tools2 == IF installed THEN tools \cup {task.tool} ELSE tools
         IN  IF v = Raised THEN [verdicts |-> <<Raised>>, linters |-> tools2]
             ELSE LET rest == ValidateLoop(tasks, k + 1, ag, files, tools2, installOk)
                  IN  [verdicts |-> <<v>> \o rest.verdicts,
                       linters |-> rest.linters]

---------------------------------------------------------------------------
(* Dependency-Aware Executor *)

\* check_dependencies: task_results is looked up under the int index
check_dependencies(task, task_index, tasks, ag) ==
    \A k \in 1..Len(task.depends_on) :
        LET dep == task.depends_on[k]
        IN  ~(\/ dep >= Len(tasks)
              \/ IntKey(dep) \notin DOMAIN ag.task_results
              \/ ~ag.task_results[IntKey(dep)])

\* what an external capability can do: return 0, return non-zero, raise
ExternalOutcomes == {"ok", "nonzero", "raises"}

FileActions == {"create_directory", "create_venv", "create_file", "create_test",
                "generate_docs", "modify_file", "delete_file"}
ProcessActions == {"install_dependency", "init_git", "git_commit", "git_branch",
                   "git_push", "run_script", "run_test", "run_lint"}

\* the outcomes the capability behind a task can have: a file system call
\* succeeds or raises, a subprocess also returns an exit status
OutcomesOf(task) ==
    IF task.action \in ProcessActions THEN ExternalOutcomes
    ELSE IF task.action \in FileActions THEN {"ok", "raises"}
    ELSE {"ok"}

\* task.get("feature", "unknown") in execute_task
FeatureOf(task) == IF task.feature = None THEN "unknown" ELSE task.feature

\* the body of execute_task's try block up to the bookkeeping: the state it
\* leaves and the exception it raised, if any.  out.main is what the action's
\* capability did, out.fix what the auto-fixer did, out.add what `git add .`
\* did.
NoFault == <<>>
Fault(kind, what) == <<kind, what>>
Effect(ag, files, ds, fault) == [self |-> ag, fs |-> files, dirs |-> ds, fault |-> fault]

Dispatch(task, ag, files, ds, out) ==
    LET action == task.action
        path == task.path
        feature == FeatureOf(task)
        same == Effect(ag, files, ds, NoFault)
        oserror == Effect(ag, files, ds, Fault("OSError", action))
        written == [files EXCEPT ![path] = IF task.content = None THEN "" ELSE task.content]
        langOk == ag.language \in {"python", "nodejs"}
    IN
    IF action = "create_directory" THEN
        IF out.main # "ok" THEN oserror
        ELSE Effect([ag EXCEPT !.project_root = IF @ = None THEN path ELSE @],
                    files, ds \cup {path}, NoFault)
    ELSE IF action = "create_venv" THEN
        IF out.main # "ok" THEN oserror
        ELSE Effect([ag EXCEPT !.venv_path = PathOf(JoinPath(path, ".venv"))],
                    files, ds, NoFault)
    ELSE IF action = "set_language" THEN
        Effect([ag EXCEPT !.language = IF task.language = None THEN "python"
                                        ELSE task.language], files, ds, NoFault)
    ELSE IF action \in {"create_file", "create_test", "generate_docs"} THEN
        \* Path(path).parent.mkdir(parents=True, exist_ok=True), then the write
        IF out.main # "ok" \/ path \notin DOMAIN files THEN oserror
        ELSE Effect([ag EXCEPT !.created_files = Append(@, path),
                               !.features = AppendNew(@, feature)],
                    written, ds \cup {ParentOf(path)}, NoFault)
    ELSE IF action = "modify_file" THEN
        IF out.main # "ok" \/ path \notin DOMAIN files THEN oserror
        ELSE Effect([ag EXCEPT !.created_files = Append(@, path),
                               !.features = AppendNew(@, feature)],
                    written, ds, NoFault)
    ELSE IF action = "delete_file" THEN
        IF FileAt(files, path) = NoFile THEN same
        ELSE IF out.main # "ok" THEN oserror
        ELSE Effect([ag EXCEPT !.created_files = Without(@, path)],
                    [files EXCEPT ![path] = NoFile], ds, NoFault)
    ELSE IF action = "install_dependency" THEN
        IF ~langOk THEN Effect(ag, files, ds, Fault("ValueError", "Unsupported language"))
        ELSE IF out.main = "raises" THEN oserror
        ELSE IF out.main = "nonzero"
             THEN Effect(ag, files, ds, Fault("RuntimeError", "Failed to install"))
        ELSE Effect([ag EXCEPT !.installed_deps = Append(@, task.package)],
                    files, ds, NoFault)
    ELSE IF action = "init_git" THEN
        IF out.main = "raises" THEN oserror
        ELSE IF out.main = "nonzero"
             THEN Effect(ag, files, ds \cup {path}, Fault("RuntimeError", "Git init failed"))
        ELSE Effect(ag, files, ds \cup {path}, NoFault)
    ELSE IF action \in {"git_commit", "git_branch", "git_push"} THEN
        \* git_commit: the exit status of `git add .` is not looked at
        IF action = "git_commit" /\ out.add = "raises" THEN oserror
        ELSE IF out.main = "raises" THEN oserror
        ELSE IF out.main = "nonzero"
             THEN Effect(ag, files, ds, Fault("RuntimeError", action))
        ELSE same
    ELSE IF action = "run_script" THEN
        IF ~langOk THEN Effect(ag, files, ds, Fault("ValueError", "Unsupported language"))
        ELSE IF out.main = "raises" THEN oserror
        ELSE IF out.main = "nonzero"
             THEN Effect(ag, files, ds, Fault("RuntimeError", "Script failed"))
        ELSE same
    ELSE IF action = "run_test" THEN
        IF ~langOk THEN Effect(ag, files, ds, Fault("ValueError", "Unsupported language"))
        ELSE IF out.main = "raises" THEN oserror
        ELSE IF out.main = "nonzero"
             THEN Effect([ag EXCEPT !.test_results = Append(@, <<path, "Failed">>)],
                         files, ds, Fault("RuntimeError", "Tests failed"))
        ELSE Effect([ag EXCEPT !.test_results = Append(@, <<path, "Passed">>)],
                    files, ds, NoFault)
    ELSE IF action = "run_lint" THEN
        IF ~(\/ task.tool = "flake8" /\ ag.language = "python"
             \/ task.tool = "eslint" /\ ag.language = "nodejs")
        THEN Effect(ag, files, ds, Fault("ValueError", "Unsupported linter"))
        ELSE IF out.main = "raises"
                \/ (task.tool = "flake8" /\ task.fix /\ out.fix = "raises")
        THEN oserror
        ELSE LET fixed == IF task.tool = "flake8" /\ task.fix
                          THEN IF out.fix = "ok" THEN "Fixed issues with autopep8"
                               ELSE "Autopep8 failed"
                          ELSE ""
                 verdict == IF out.main = "ok" THEN "Passed" ELSE "Issues found"
             IN  Effect([ag EXCEPT !.linting_results = Append(@, <<path, task.tool, fixed, verdict>>),
                                   !.features = AppendNew(@, feature)],
                        files, ds, NoFault)
    ELSE same

\* the subprocess.run calls that execute_task makes for the task, in order,
\* each with what it did; a call that raises is the last one made
ToolCalls(task, ag, out) ==
    LET action == task.action
        langOk == ag.language \in {"python", "nodejs"}
        main == <<<<action, out.main>>>>
    IN
    IF action \in {"install_dependency", "run_script", "run_test"}
    THEN IF langOk THEN main ELSE <<>>
    ELSE IF action \in {"init_git", "git_branch", "git_push"} THEN main
    ELSE IF action = "git_commit"
    THEN IF out.add = "raises" THEN <<<<"git add", out.add>>>>
         ELSE <<<<"git add", out.add>>>> \o main
    ELSE IF action = "run_lint"
    THEN IF task.tool = "flake8" /\ ag.language = "python"
         THEN IF task.fix
              THEN IF out.fix = "raises" THEN <<<<"autopep8", out.fix>>>>
                   ELSE <<<<"autopep8", out.fix>>>> \o main
              ELSE main
         ELSE IF task.tool = "eslint" /\ ag.language = "nodejs" THEN main
         ELSE <<>>
    ELSE <<>>

\* one of the task's external tools returned a non-zero status or raised
ToolFailed(task, ag, out) ==
    \E k \in 1..Len(ToolCalls(task, ag, out)) : ToolCalls(task, ag, out)[k][2] # "ok"

\* a TaskHistoryEntry; the timestamp is the entry's position in time
HistoryEntry(task, task_index, success, fault, ag) ==
    [task |-> task, index |-> task_index, action |-> task.action,
     success |-> success, error |-> fault, api_model |-> ag.api_model,
     timestamp |-> Len(ag.task_history) + 1]

\* execute_task with an except branch that records the result only
execute_task_unlogged(task, task_index, tasks, ag, files, ds, out) ==
    IF ~check_dependencies(task, task_index, tasks, ag)
    THEN [ret |-> FALSE, dispatched |-> FALSE, fs |-> files, dirs |-> ds,
          self |-> [ag EXCEPT !.task_results = DictSet(@, IntKey(task_index), FALSE)]]
    ELSE LET e == Dispatch(task, ag, files, ds, out)
             ok == e.fault = NoFault
         IN  [ret |-> ok, dispatched |-> TRUE, fs |-> e.fs, dirs |-> e.dirs,
              self |-> [e.self EXCEPT
                          !.task_history = IF ok THEN Append(@, HistoryEntry(task, task_index, ok, e.fault, e.self))
                                           ELSE @,
                          !.task_results = DictSet(@, IntKey(task_index), ok)]]

\* execute_task: ret is its return value, dispatched tells whether the
\* action's capability was reached
execute_task(task, task_index, tasks, ag, files, ds, out) ==
    IF ~check_dependencies(task, task_index, tasks, ag)
    THEN [ret |-> FALSE, dispatched |-> FALSE, fs |-> files, dirs |-> ds,
          self |-> [ag EXCEPT !.task_results = DictSet(@, IntKey(task_index), FALSE)]]
    ELSE LET e == Dispatch(task, ag, files, ds, out)
             ok == e.fault = NoFault
         IN  [ret |-> ok, dispatched |-> TRUE, fs |-> e.fs, dirs |-> e.dirs,
              self |-> [e.self EXCEPT
                          !.task_history = Append(@, HistoryEntry(task, task_index, ok, e.fault, e.self)),
                          !.task_results = DictSet(@, IntKey(task_index), ok)]]

---------------------------------------------------------------------------
(* The oracle's answers *)

\* the paths and directories of the model's file system
Paths == {"app.py", "test_app.py", "../../etc/passwd", "/abs/app.py",
          "proj/app.py", "proj/test_app.py", "proj/app.js"}

createApp == Task("create_file", "app.py", "v1", "core", <<>>)
runTest   == Task("run_test", "test_app.py", None, None, <<0>>)
mkdirProj == Task("create_directory", "proj", None, None, <<>>)
createAbs == Task("create_file", "/abs/app.py", "v1", "logging", <<>>)
escape    == Task("create_file", "../../etc/passwd", "v1", None, <<>>)
bogus     == Task("deploy", None, None, None, <<>>)
modifyApp == Task("modify_file", "app.py", "v2", None, <<>>)
modifyAbs == Task("modify_file", "/abs/app.py", "v2", None, <<5>>)
forward   == Task("run_test", "test_app.py", None, None, <<1>>)
runScript == Task("run_script", "app.py", None, None, <<>>)
outOfRange == Task("run_script", "app.py", None, None, <<2>>)
negative  == Task("run_script", "app.py", None, None, <<-1>>)
createProjTest == Task("create_test", "proj/test_app.py", "v1", "database", <<>>)
lintProjTest ==
    [Task("run_lint", "proj/test_app.py", None, "database", <<0>>) EXCEPT !.tool = "flake8"]

lintApp ==
    [Task("run_lint", "app.py", None, "logging", <<>>) EXCEPT !.tool = "flake8", !.fix = TRUE]
commit == Task("git_commit", "proj", None, None, <<>>)
installDep ==
    [Task("install_dependency", None, None, "database", <<>>) EXCEPT !.package = "requests"]
setNode == [Task("set_language", None, None, None, <<>>) EXCEPT !.language = "nodejs"]
lintEslint ==
    [Task("run_lint", "proj/app.js", None, None, <<0>>) EXCEPT !.tool = "eslint"]
createA == Task("create_file", "proj/app.py", "v1", "docker", <<>>)
createB == Task("create_file", "proj/test_app.py", "v1", "docker", <<>>)

\* the batches send_to_api may return under Spec (besides the empty one)
MainBatches ==
    {<<createApp, runTest>>,
     <<mkdirProj, createAbs>>,
     <<escape>>,
     <<bogus, modifyAbs, lintProjTest>>,
     <<modifyApp>>,
     <<forward, runScript>>,
     <<outOfRange, negative>>,
     <<createProjTest>>}

\* an oracle that keeps answering with an invalid batch or a failing task
ReplanBatches == {<<bogus>>, <<runScript>>}

\* an oracle whose batches run the external tools, change the language
\* before a lint and introduce one feature twice
ToolBatches ==
    {<<lintApp>>,
     <<commit>>,
     <<installDep>>,
     <<setNode, lintEslint>>,
     <<createA, createB>>}

\* response.get("tasks", []): an answer of the oracle; a transport or parse
\* fault is the empty batch
Answers == IF budget > 0 THEN oracle \cup {<<>>} ELSE {<<>>}

---------------------------------------------------------------------------
(* Activation records of execute_tasks *)

\* tasks:    the batch
\* phase:    "validate"       before the validation loop
\*           "retry"          validation failed, before the corrective request
\*           "await_retry"    inside  return self.execute_tasks(retry_tasks)
\*           "exec"           in the execution loop, before task i
\*           "recover"        task i failed, before the recovery request
\*           "await_recover"  inside  self.execute_tasks(recovery_tasks)
\*           "return"         returning ret
\*           "raised"         left by an exception
\* verdicts: what validate_task returned for the tasks validated
\* attempts: the execute_task calls made for this batch, in order: the
\*           task's index, the value returned, whether the action was reached
\*           and whether one of its external tools failed
\* retries, recoveries: the requests this call has sent to the oracle
\* entered:  the length of task_history when the call was made
NewFrame(tasks) ==
    [tasks |-> tasks, phase |-> "validate", i |-> 0, ret |-> TRUE,
     verdicts |-> <<>>, attempts |-> <<>>, retries |-> 0, recoveries |-> 0,
     entered |-> Len(self.task_history)]

\* `for i, task in enumerate(tasks)`: the index of the next turn
NextIndex(i) == i + 1

Top == stack[Len(stack)]
SetTop(frame) == [stack EXCEPT ![Len(stack)] = frame]

\* the call is at its `return True` or has its return value
Returning(frame) ==
    \/ frame.phase = "return"
    \/ frame.phase = "exec" /\ frame.i >= Len(frame.tasks)
ReturnValue(frame) == IF frame.phase = "return" THEN frame.ret ELSE TRUE

Running == {"loop", "exec", "prompt"}
Stopped == {"idle", "paused", "finished", "interrupted", "exited", "crashed"}

\* a request to the oracle, as send_to_api's parameters
Request(retry, failed_task) == [retry |-> retry, failed_task |-> failed_task]

---------------------------------------------------------------------------
(* State after construction *)

InitWith(batches, calls) ==
    /\ self = InitSelf
    /\ fs = [p \in Paths |-> NoFile]
    /\ dirs = {}
    /\ linters = {}
    /\ state_file = <<>>
    /\ pc = "idle"
    /\ stack = <<>>
    /\ oracle = batches
    /\ budget = calls
    /\ lastRequest = <<>>
    /\ report = <<>>

Init == InitWith(MainBatches, MaxCalls)

InitReplan == InitWith(ReplanBatches, MaxReplanCalls)

InitTools == InitWith(ToolBatches, MaxToolCalls)

---------------------------------------------------------------------------
(* save_state and the project checks of process_command *)

\* save_state: the document is written from the fields as they are, then
\* get_context_summary (for the context file) refreshes file_hashes
SaveState ==
    /\ state_file' = <<JsonDump(self)>>
    /\ self' = get_context_summary(self, fs)
    /\ report' = <<assess_project_completeness(self, fs, dirs)>>

\* validate_project
validate_project(ag, files, ds) ==
    /\ ag.project_root # None
    /\ ag.project_root \in ds
    /\ \A k \in 1..Len(ag.created_files) : FileAt(files, ag.created_files[k]) # NoFile

---------------------------------------------------------------------------
(* process_command *)

\* main() with a command: a fresh agent, select_api, clear_state and the
\* reset of the aggregates
StartNew(model_choice) ==
    /\ pc \in Stopped
    /\ self' = [InitSelf EXCEPT !.command = "build", !.api_model = model_choice]
    /\ state_file' = <<>>
    /\ stack' = <<>>
    /\ lastRequest' = <<>>
    /\ report' = <<>>
    /\ pc' = "loop"
    /\ UNCHANGED <<fs, dirs, linters, oracle, budget>>

\* main() without a command: a fresh agent, select_api, load_state
Resume(model_choice) ==
    /\ pc \in Stopped
    /\ stack' = <<>>
    /\ lastRequest' = <<>>
    /\ report' = <<>>
    /\ IF state_file = <<>>
       THEN /\ self' = [InitSelf EXCEPT !.api_model = model_choice]
            /\ pc' = "exited"
       ELSE /\ self' = JsonLoad(state_file[1])
            /\ pc' = IF load_state(state_file, dirs) /\ state_file[1].command # None
                     THEN "loop" ELSE "exited"
    /\ UNCHANGED <<fs, dirs, linters, state_file, oracle, budget>>

\* a loop head that takes an empty answer for completion
Iterate_silent ==
    /\ pc = "loop"
    /\ budget > 0
    /\ budget' = budget - 1
    /\ lastRequest' = <<Request(FALSE, <<>>)>>
    /\ self' = [get_context_summary(self, fs) EXCEPT !.current_iteration = @ + 1]
    /\ report' = <<assess_project_completeness(self, fs, dirs)>>
    /\ \E tasks \in Answers :
          IF tasks = <<>>
          THEN pc' = "finished" /\ stack' = <<>>
          ELSE pc' = "exec" /\ stack' = <<NewFrame(tasks)>>
    /\ UNCHANGED <<fs, dirs, linters, state_file, oracle>>

\* the head of the while loop: the iteration's planning request
Iterate ==
    /\ pc = "loop"
    /\ budget > 0
    /\ budget' = budget - 1
    /\ lastRequest' = <<Request(FALSE, <<>>)>>
    /\ self' = [get_context_summary(self, fs) EXCEPT !.current_iteration = @ + 1]
    /\ report' = <<assess_project_completeness(self, fs, dirs)>>
    /\ \E tasks \in Answers :
          IF tasks = <<>>
          THEN pc' = "prompt" /\ stack' = <<>>
          ELSE pc' = "exec" /\ stack' = <<NewFrame(tasks)>>
    /\ UNCHANGED <<fs, dirs, linters, state_file, oracle>>

\* execute_tasks returned to process_command
AfterExecute ==
    /\ pc = "exec"
    /\ Len(stack) = 1
    /\ Returning(Top)
    /\ stack' = <<>>
    /\ pc' = "prompt"
    /\ IF ReturnValue(Top) /\ validate_project(self, fs, dirs)
       THEN SaveState
       ELSE /\ report' = <<assess_project_completeness(self, fs, dirs)>>
            /\ UNCHANGED <<self, state_file>>
    /\ UNCHANGED <<fs, dirs, linters, oracle, budget, lastRequest>>

\* prompt_user: continue, or add a feature
Continue ==
    /\ pc = "prompt"
    /\ pc' = "loop"
    /\ UNCHANGED <<self, fs, dirs, linters, state_file, stack, oracle, budget,
                   lastRequest, report>>

\* prompt_user: pause
Pause ==
    /\ pc = "prompt"
    /\ SaveState
    /\ pc' = "paused"
    /\ UNCHANGED <<fs, dirs, linters, stack, oracle, budget, lastRequest>>

\* prompt_user: stop; finalize_project and clear_state when a root is set
Stop ==
    /\ pc = "prompt"
    /\ IF self.project_root = None
       THEN pc' = "finished" /\ UNCHANGED <<self, state_file>>
       ELSE IF self.project_root \notin dirs
       THEN pc' = "crashed" /\ UNCHANGED <<self, state_file>>
       ELSE /\ pc' = "finished"
            /\ self' = [self EXCEPT !.created_files =
                          (IF self.language = "nodejs" THEN Append(@, "package.json") ELSE @)
                          \o <<"PROJECT_SUMMARY.md">>]
            /\ state_file' = <<>>
    /\ UNCHANGED <<fs, dirs, linters, stack, oracle, budget, lastRequest, report>>

\* a handler that exits without saving
Interrupt_nosave ==
    /\ pc \in Running
    /\ pc' = "interrupted"
    /\ UNCHANGED <<self, fs, dirs, linters, state_file, stack, oracle, budget,
                   lastRequest, report>>

\* SIGINT: save_state_and_exit
Interrupt ==
    /\ pc \in Running
    /\ SaveState
    /\ pc' = "interrupted"
    /\ UNCHANGED <<fs, dirs, linters, stack, oracle, budget, lastRequest>>

\* SIGINT while main() waits for the command or the model choice: the handler
\* is installed by __init__, so the new agent's empty state is saved
InterruptMain ==
    /\ pc \in Stopped
    /\ state_file' = <<JsonDump(InitSelf)>>
    /\ self' = get_context_summary(InitSelf, fs)
    /\ report' = <<assess_project_completeness(InitSelf, fs, dirs)>>
    /\ stack' = <<>>
    /\ lastRequest' = <<>>
    /\ pc' = "interrupted"
    /\ UNCHANGED <<fs, dirs, linters, oracle, budget>>

\* between two runs the project directory is removed by someone else
RootRemoved ==
    /\ pc \in Stopped
    /\ state_file # <<>>
    /\ state_file[1].project_root \in dirs
    /\ dirs' = dirs \ {state_file[1].project_root}
    /\ UNCHANGED <<self, fs, linters, state_file, pc, stack, oracle, budget,
                   lastRequest, report>>

---------------------------------------------------------------------------
(* execute_tasks *)

\* a validation loop that records a result for the batch's first task
ValidateTasks_recording ==
    /\ pc = "exec"
    /\ stack # <<>>
    /\ Top.phase = "validate"
    /\ \E installOk \in [1..Len(Top.tasks) -> BOOLEAN] :
          /\ \A k \in 1..Len(Top.tasks) :
                Top.tasks[k].action # "run_lint" => installOk[k]
          /\ LET r == ValidateLoop(Top.tasks, 1, self, fs, linters, installOk)
                 raised == Raised \in Range(r.verdicts)
                 valid == \A k \in 1..Len(r.verdicts) : r.verdicts[k] = Valid
             IN  /\ linters' = r.linters
                 /\ stack' = SetTop([Top EXCEPT
                                       !.verdicts = r.verdicts,
                                       !.phase = IF raised THEN "raised"
                                                 ELSE IF valid THEN "exec"
                                                 ELSE "retry"])
                 /\ pc' = IF raised THEN "crashed" ELSE pc
    /\ self' = [self EXCEPT !.task_results = DictSet(@, IntKey(0), FALSE)]
    /\ UNCHANGED <<fs, dirs, state_file, oracle, budget, lastRequest, report>>

\* the validation loop
ValidateTasks ==
    /\ pc = "exec"
    /\ stack # <<>>
    /\ Top.phase = "validate"
    /\ \E installOk \in [1..Len(Top.tasks) -> BOOLEAN] :
          /\ \A k \in 1..Len(Top.tasks) :
                Top.tasks[k].action # "run_lint" => installOk[k]
          /\ LET r == ValidateLoop(Top.tasks, 1, self, fs, linters, installOk)
                 raised == Raised \in Range(r.verdicts)
                 valid == \A k \in 1..Len(r.verdicts) : r.verdicts[k] = Valid
             IN  /\ linters' = r.linters
                 /\ stack' = SetTop([Top EXCEPT
                                       !.verdicts = r.verdicts,
                                       !.phase = IF raised THEN "raised"
                                                 ELSE IF valid THEN "exec"
                                                 ELSE "retry"])
                 /\ pc' = IF raised THEN "crashed" ELSE pc
    /\ UNCHANGED <<self, fs, dirs, state_file, oracle, budget, lastRequest, report>>

\* send_to_api(self.command, retry=True) and what follows it
RetryRequest ==
    /\ pc = "exec"
    /\ stack # <<>>
    /\ Top.phase = "retry"
    /\ self' = get_context_summary(self, fs)
    /\ report' = <<assess_project_completeness(self, fs, dirs)>>
    /\ lastRequest' = <<Request(TRUE, <<>>)>>
    /\ \E retry_tasks \in Answers :
          IF retry_tasks = <<>>
          THEN /\ stack' = SetTop([Top EXCEPT !.retries = @ + 1,
                                              !.phase = "return", !.ret = FALSE])
               /\ budget' = budget
          ELSE /\ stack' = Append(SetTop([Top EXCEPT !.retries = @ + 1,
                                                     !.phase = "await_retry"]),
                                  NewFrame(retry_tasks))
               /\ budget' = budget - 1
    /\ UNCHANGED <<fs, dirs, linters, state_file, pc, oracle>>

\* one turn of the execution loop: execute_task(task, i, tasks)
ExecuteTask ==
    /\ pc = "exec"
    /\ stack # <<>>
    /\ Top.phase = "exec"
    /\ Top.i < Len(Top.tasks)
    /\ LET task == Top.tasks[Top.i + 1] IN
       \E main \in OutcomesOf(task) :
       \E fix \in (IF task.action = "run_lint" /\ task.fix THEN ExternalOutcomes ELSE {"ok"}) :
       \E add \in (IF task.action = "git_commit" THEN ExternalOutcomes ELSE {"ok"}) :
          LET out == [main |-> main, fix |-> fix, add |-> add]
              r == execute_task(task, Top.i, Top.tasks, self, fs, dirs, out)
              attempt == [index |-> Top.i, ret |-> r.ret, dispatched |-> r.dispatched,
                          tool_failed |-> r.dispatched /\ ToolFailed(task, self, out)]
          IN  /\ self' = r.self
              /\ fs' = r.fs
              /\ dirs' = r.dirs
              /\ stack' = SetTop([Top EXCEPT
                                    !.attempts = Append(@, attempt),
                                    !.i = IF r.ret THEN NextIndex(@) ELSE @,
                                    !.phase = IF r.ret THEN "exec" ELSE "recover"])
    /\ UNCHANGED <<linters, state_file, pc, oracle, budget, lastRequest, report>>

\* a recovery path that gives the batch up when the oracle has no recovery
RecoveryRequest_abort ==
    /\ pc = "exec"
    /\ stack # <<>>
    /\ Top.phase = "recover"
    /\ self' = get_context_summary(self, fs)
    /\ report' = <<assess_project_completeness(self, fs, dirs)>>
    /\ lastRequest' = <<Request(FALSE, <<Top.tasks[Top.i + 1]>>)>>
    /\ \E recovery_tasks \in Answers :
          IF recovery_tasks = <<>>
          THEN /\ stack' = SetTop([Top EXCEPT !.recoveries = @ + 1,
                                              !.phase = "exec", !.i = Len(Top.tasks)])
               /\ budget' = budget
          ELSE /\ stack' = Append(SetTop([Top EXCEPT !.recoveries = @ + 1,
                                                     !.phase = "await_recover"]),
                                  NewFrame(recovery_tasks))
               /\ budget' = budget - 1
    /\ UNCHANGED <<fs, dirs, linters, state_file, pc, oracle>>

\* send_to_api("Recover from failed task ...", failed_task=task) and what
\* follows it
RecoveryRequest ==
    /\ pc = "exec"
    /\ stack # <<>>
    /\ Top.phase = "recover"
    /\ self' = get_context_summary(self, fs)
    /\ report' = <<assess_project_completeness(self, fs, dirs)>>
    /\ lastRequest' = <<Request(FALSE, <<Top.tasks[Top.i + 1]>>)>>
    /\ \E recovery_tasks \in Answers :
          IF recovery_tasks = <<>>
          THEN /\ stack' = SetTop([Top EXCEPT !.recoveries = @ + 1,
                                              !.phase = "exec", !.i = NextIndex(@)])
               /\ budget' = budget
          ELSE /\ stack' = Append(SetTop([Top EXCEPT !.recoveries = @ + 1,
                                                     !.phase = "await_recover"]),
                                  NewFrame(recovery_tasks))
               /\ budget' = budget - 1
    /\ UNCHANGED <<fs, dirs, linters, state_file, pc, oracle>>

\* a return from recovery that starts the batch over
ReturnTasks_restart ==
    /\ pc = "exec"
    /\ Len(stack) > 1
    /\ Returning(Top)
    /\ LET caller == stack[Len(stack) - 1]
           rest == SubSeq(stack, 1, Len(stack) - 2)
       IN  stack' = Append(rest,
                IF caller.phase = "await_retry"
                THEN [caller EXCEPT !.phase = "return", !.ret = ReturnValue(Top)]
                ELSE [caller EXCEPT !.phase = "exec", !.i = 0])
    /\ UNCHANGED <<self, fs, dirs, linters, state_file, pc, oracle, budget,
                   lastRequest, report>>

\* a return from the corrective batch whose value is dropped, as the value
\* of a recovery batch is
ReturnTasks_dropping ==
    /\ pc = "exec"
    /\ Len(stack) > 1
    /\ Returning(Top)
    /\ LET caller == stack[Len(stack) - 1]
           rest == SubSeq(stack, 1, Len(stack) - 2)
       IN  stack' = Append(rest,
                IF caller.phase = "await_retry"
                THEN [caller EXCEPT !.phase = "return", !.ret = TRUE]
                ELSE [caller EXCEPT !.phase = "exec", !.i = NextIndex(@)])
    /\ UNCHANGED <<self, fs, dirs, linters, state_file, pc, oracle, budget,
                   lastRequest, report>>

\* a nested execute_tasks returns to the call that made it
ReturnTasks ==
    /\ pc = "exec"
    /\ Len(stack) > 1
    /\ Returning(Top)
    /\ LET caller == stack[Len(stack) - 1]
           rest == SubSeq(stack, 1, Len(stack) - 2)
       IN  stack' = Append(rest,
                IF caller.phase = "await_retry"
                THEN [caller EXCEPT !.phase = "return", !.ret = ReturnValue(Top)]
                ELSE [caller EXCEPT !.phase = "exec", !.i = NextIndex(@)])
    /\ UNCHANGED <<self, fs, dirs, linters, state_file, pc, oracle, budget,
                   lastRequest, report>>

---------------------------------------------------------------------------

\* model_choice; the two oracles differ in transport only
ApiModels == {"gemini"}

Next ==
    \/ \E m \in ApiModels : StartNew(m)
    \/ \E m \in ApiModels : Resume(m)
    \/ Iterate
    \/ AfterExecute
    \/ Continue
    \/ Pause
    \/ Stop
    \/ Interrupt
    \/ InterruptMain
    \/ RootRemoved
    \/ ValidateTasks
    \/ RetryRequest
    \/ ExecuteTask
    \/ RecoveryRequest
    \/ ReturnTasks

Spec == Init /\ [][Next]_vars

\* one run of the engine, from its command to the operator's stop
NextReplan ==
    \/ \E m \in ApiModels : pc = "idle" /\ StartNew(m)
    \/ Iterate
    \/ AfterExecute
    \/ Continue
    \/ Stop
    \/ ValidateTasks
    \/ RetryRequest
    \/ ExecuteTask
    \/ RecoveryRequest
    \/ ReturnTasks

SpecReplan == InitReplan /\ [][NextReplan]_vars

\* one run of the engine over the batches that run the external tools
SpecTools == InitTools /\ [][NextReplan]_vars

---------------------------------------------------------------------------
(* save_state write by write: open(self.state_file, 'w') empties the file, *)
(* json.dump(state, f, indent=2) writes the document chunk by chunk, and   *)
(* the file is complete when the with block closes it                      *)

\* the state file is being written
Partial(file) == Len(file) = 2

\* execute_tasks returned false, or validate_project failed: to the prompt
\* without a save
AfterExecuteFailed ==
    /\ pc = "exec"
    /\ Len(stack) = 1
    /\ Returning(Top)
    /\ ~(ReturnValue(Top) /\ validate_project(self, fs, dirs))
    /\ AfterExecute

\* the iteration's save_state begins: the document is built and the file is
\* opened for writing, which truncates it
BeginSave ==
    /\ pc = "exec"
    /\ Len(stack) = 1
    /\ Returning(Top)
    /\ ReturnValue(Top) /\ validate_project(self, fs, dirs)
    /\ state_file' = <<JsonDump(self), 0>>
    /\ stack' = <<>>
    /\ pc' = "save"
    /\ UNCHANGED <<self, fs, dirs, linters, oracle, budget, lastRequest, report>>

\* json.dump writes one more chunk of the document
WriteChunk ==
    /\ pc = "save"
    /\ Partial(state_file)
    /\ state_file[2] < SaveChunks - 1
    /\ state_file' = <<state_file[1], state_file[2] + 1>>
    /\ UNCHANGED <<self, fs, dirs, linters, pc, stack, oracle, budget, lastRequest,
                   report>>

\* the last chunk is written and the file closed; then the context file is
\* written from get_context_summary, and prompt_user follows
FinishSave ==
    /\ pc = "save"
    /\ Partial(state_file)
    /\ state_file[2] = SaveChunks - 1
    /\ state_file' = <<state_file[1]>>
    /\ self' = get_context_summary(self, fs)
    /\ report' = <<assess_project_completeness(self, fs, dirs)>>
    /\ pc' = "prompt"
    /\ UNCHANGED <<fs, dirs, linters, stack, oracle, budget, lastRequest>>

\* SIGINT during the write: the handler's save_state opens the file again
\* and writes the whole document, sys.exit unwinds the interrupted write,
\* whose close flushes the chunks it had buffered over the same bytes
InterruptSave ==
    /\ pc = "save"
    /\ state_file' = <<JsonDump(self)>>
    /\ self' = get_context_summary(self, fs)
    /\ report' = <<assess_project_completeness(self, fs, dirs)>>
    /\ pc' = "interrupted"
    /\ UNCHANGED <<fs, dirs, linters, stack, oracle, budget, lastRequest>>

\* SIGINT inside execute_task: the handler runs between two statements of
\* the main thread, here after the action's branch of the try block made
\* its updates and before the bookkeeping that follows it (or the except
\* branch), so save_state writes the agent's fields as the branch left them
InterruptTask ==
    /\ pc = "exec"
    /\ stack # <<>>
    /\ Top.phase = "exec"
    /\ Top.i < Len(Top.tasks)
    /\ LET task == Top.tasks[Top.i + 1] IN
       /\ check_dependencies(task, Top.i, Top.tasks, self)
       /\ \E main \in OutcomesOf(task) :
             LET e == Dispatch(task, self, fs, dirs,
                               [main |-> main, fix |-> "ok", add |-> "ok"])
             IN  /\ state_file' = <<JsonDump(e.self)>>
                 /\ self' = get_context_summary(e.self, e.fs)
                 /\ report' = <<assess_project_completeness(e.self, e.fs, e.dirs)>>
                 /\ fs' = e.fs
                 /\ dirs' = e.dirs
    /\ pc' = "interrupted"
    /\ UNCHANGED <<linters, stack, oracle, budget, lastRequest>>

\* one run of the engine with its saves taken write by write and its
\* interrupts taken inside a save or inside a task
NextSave ==
    \/ \E m \in ApiModels : pc = "idle" /\ StartNew(m)
    \/ Iterate
    \/ AfterExecuteFailed
    \/ BeginSave
    \/ WriteChunk
    \/ FinishSave
    \/ InterruptSave
    \/ InterruptTask
    \/ Continue
    \/ Stop
    \/ ValidateTasks
    \/ RetryRequest
    \/ ExecuteTask
    \/ RecoveryRequest
    \/ ReturnTasks

SpecSave == Init /\ [][NextSave]_vars

---------------------------------------------------------------------------
(* The Completeness Assessor on its own: assess_project_completeness over *)
(* the agent states and project directories it can be called with        *)

\* all sequences over S of length at most n
SeqsUpTo(S, n) == UNION {[1..k -> S] : k \in 0..n}

\* entries of test_results and linting_results as execute_task writes them
TestEntries == {<<"test_app.py", "Failed">>, <<"test_app.py", "Passed">>}
LintEntries ==
    {<<"app.py", "flake8", "", "Issues found">>,
     <<"app.py", "flake8", "", "Passed">>,
     <<"app.py", "flake8", "Fixed issues with autopep8", "Issues found">>}

\* the feature tags of the short lists drawn: two of the catalog and one
\* outside it; the whole catalog is drawn as a list too
ScoreTags == {"logging", "database", "core"}

\* the files of the project directory
ProjectFiles == {"proj/app.py", "proj/test_app.py", "proj/app.js"}

InitScore ==
    /\ \E root \in {None, "proj"}, language \in {"python", "nodejs"},
          tests \in SeqsUpTo(TestEntries, 1), lints \in SeqsUpTo(LintEntries, 1),
          feats \in SeqsUpTo(ScoreTags, MaxFeatures) \cup {production_features} :
          self = [InitSelf EXCEPT !.project_root = root, !.language = language,
                                  !.test_results = tests, !.linting_results = lints,
                                  !.features = feats, !.command = "build",
                                  !.api_model = "gemini"]
    /\ \E present \in SUBSET ProjectFiles :
          fs = [p \in Paths |-> IF p \in present THEN "v1" ELSE NoFile]
    /\ dirs \in {{}, {"proj"}}
    /\ linters = {}
    /\ state_file = <<>>
    /\ pc = "loop"
    /\ stack = <<>>
    /\ oracle = {}
    /\ budget = 0
    /\ lastRequest = <<>>
    /\ report = <<>>

\* completeness = self.assess_project_completeness(), as prompt_user,
\* get_context_summary and finalize_project call it
Assess ==
    /\ report = <<>>
    /\ report' = <<assess_project_completeness(self, fs, dirs)>>
    /\ UNCHANGED <<self, fs, dirs, linters, state_file, pc, stack, oracle, budget,
                   lastRequest>>

NextScore == Assess

SpecScore == InitScore /\ [][NextScore]_vars

---------------------------------------------------------------------------
(* Properties *)

Frames == Range(stack)

\* the call has just run its validation loop: the agent and the file system
\* are still as the loop saw them
JustValidated(frame) ==
    /\ pc \in {"exec", "crashed"}
    /\ stack # <<>>
    /\ frame = Top
    /\ frame.verdicts # <<>>
    /\ frame.attempts = <<>>
    /\ frame.phase \in {"exec", "retry", "raised"}

\* the dependencies of the task of attempt n all have a true result recorded
\* by an earlier attempt of the same call
OwnDepsMet(frame, n) ==
    LET task == frame.tasks[frame.attempts[n].index + 1]
    IN  \A d \in 1..Len(task.depends_on) :
           \E m \in 1..(n - 1) :
              /\ frame.attempts[m].index = task.depends_on[d]
              /\ frame.attempts[m].ret

\* C1: a task with a dependency that this batch's own execution has not
\* recorded as true gets the result false and no action is dispatched for it
C1_DependencyShortCircuit ==
    \A frame \in Frames :
       \A n \in 1..Len(frame.attempts) :
          ~OwnDepsMet(frame, n) =>
             /\ ~frame.attempts[n].dispatched
             /\ ~frame.attempts[n].ret

\* C2: a batch with a rejected task is never executed, and its call sends
\* exactly one corrective request: it is about to send it, or has sent it
C2_WholeBatchInvalidation ==
    \A frame \in Frames :
       Rejected \in Range(frame.verdicts) =>
          /\ frame.attempts = <<>>
          /\ frame.phase \in {"retry", "await_retry", "return"}
          /\ frame.retries = IF frame.phase = "retry" THEN 0 ELSE 1
          /\ frame.recoveries = 0

\* C3: under a set project root, a batch with a task on "../../etc/passwd"
\* is rejected by that task's validation and goes to the corrective request
C3_PathEscapeRejected ==
    \A frame \in Frames :
       (JustValidated(frame) /\ self.project_root # None) =>
          \A k \in 1..Len(frame.tasks) :
             frame.tasks[k].path = "../../etc/passwd" =>
                /\ k <= Len(frame.verdicts)
                /\ frame.verdicts[k] = Rejected
                /\ frame.phase = "retry"

\* depends_on holds an index outside [0, len(tasks))
BadDependency(task, tasks) ==
    \E d \in 1..Len(task.depends_on) :
       task.depends_on[d] < 0 \/ task.depends_on[d] >= Len(tasks)

\* C4: validate_task returns rejected for every task with a dependency index
\* outside the batch
C4_IndexBounds ==
    \A frame \in Frames :
       \A k \in 1..Len(frame.verdicts) :
          BadDependency(frame.tasks[k], frame.tasks) => frame.verdicts[k] = Rejected

\* C5: validate_task returns rejected for every modify_file task whose file
\* hashes to the hash on record
C5_IdempotenceDetection ==
    \A frame \in Frames :
       JustValidated(frame) =>
          \A k \in 1..Len(frame.verdicts) :
             LET task == frame.tasks[k]
             IN  (/\ task.action = "modify_file"
                  /\ task.path \in DOMAIN self.file_hashes
                  /\ FileAt(fs, task.path) # NoFile
                  /\ md5(FileAt(fs, task.path)) = self.file_hashes[task.path])
                 => frame.verdicts[k] = Rejected

\* a step in which execute_task fails because the task's action faulted
FaultStep ==
    /\ pc = "exec"
    /\ stack # <<>>
    /\ Top.phase = "exec"
    /\ Len(stack') = Len(stack)
    /\ stack'[Len(stack)].phase = "recover"
    /\ stack'[Len(stack)].attempts[Len(Top.attempts) + 1].dispatched

\* an engine step that follows a failed task
AfterFaultStep ==
    /\ pc = "exec"
    /\ stack # <<>>
    /\ Top.phase = "recover"
    /\ pc' = "exec"

\* C6: when a task's action faults, the task's result becomes false and no
\* other result changes, one failure entry for the task with the fault's
\* description is appended to the history, and the engine's next step is a
\* recovery request that carries the task
C6_ExecutionFailureHandling ==
    [][/\ FaultStep =>
            LET i == Top.i
                task == Top.tasks[i + 1]
                entry == self'.task_history[Len(self'.task_history)]
            IN  /\ self'.task_results = DictSet(self.task_results, IntKey(i), FALSE)
                /\ Len(self'.task_history) = Len(self.task_history) + 1
                /\ SubSeq(self'.task_history, 1, Len(self.task_history)) = self.task_history
                /\ entry.index = i
                /\ entry.task = task
                /\ ~entry.success
                /\ entry.error # NoFault
       /\ AfterFaultStep =>
            lastRequest' = <<Request(FALSE, <<Top.tasks[Top.i + 1]>>)>>
      ]_vars

\* the scenario of C6: create_file succeeded, run_test exited non-zero, the
\* recovery request for run_test went out
C6_Witness ==
    /\ pc = "exec"
    /\ stack # <<>>
    /\ stack[1].tasks = <<createApp, runTest>>
    /\ stack[1].phase = "await_recover"
    /\ stack[1].i = 1
    /\ IntKey(0) \in DOMAIN self.task_results
    /\ self.task_results[IntKey(0)]
    /\ ~self.task_results[IntKey(1)]
    /\ Len(self.task_history) = 2
    /\ self.task_history[2].error = Fault("RuntimeError", "Tests failed")
    /\ lastRequest = <<Request(FALSE, <<runTest>>)>>

\* C7: a task's failure does not end the batch: the execution loop is at
\* index i only when the tasks before i have all been attempted, and the
\* call returns true only when every task of the batch has been attempted
C7_FailureDoesNotAbort ==
    \A frame \in Frames :
       /\ frame.phase = "exec" => Len(frame.attempts) = frame.i
       /\ frame.phase \in {"recover", "await_recover"} =>
             /\ Len(frame.attempts) = frame.i + 1
             /\ ~frame.attempts[frame.i + 1].ret
       /\ (frame.phase = "exec" /\ Returning(frame)) =>
             Len(frame.attempts) = Len(frame.tasks)

\* a batch returns after its first task's action faulted and its second
\* task was attempted all the same
C7_Witness ==
    /\ pc = "exec"
    /\ stack # <<>>
    /\ Top.phase = "exec"
    /\ Returning(Top)
    /\ Len(Top.attempts) = 2
    /\ Top.attempts[1].dispatched
    /\ ~Top.attempts[1].ret
    /\ Top.recoveries >= 1

\* C8: the attempts of a batch are made at the indices 0, 1, 2, ... in this
\* order, whatever nested batches ran in between
C8_AscendingOrder ==
    \A frame \in Frames :
       \A n \in 1..Len(frame.attempts) : frame.attempts[n].index = n - 1

\* the first batch of a run attempted its two tasks, and a recovery batch of
\* two tasks ran between the two attempts
C8_Witness ==
    /\ pc = "exec"
    /\ Len(stack) = 1
    /\ self.current_iteration = 1
    /\ Len(Top.attempts) = 2
    /\ Top.attempts[1].dispatched
    /\ Top.recoveries >= 1
    /\ Len(self.task_history) >= 4

\* C9: loading what save_state wrote gives back the state that was saved
C9_CheckpointFidelity == JsonLoad(JsonDump(self)) = self

\* C10: the corrective and recovery rounds nested under one batch number at
\* most three, the maximum the design notes propose
C10_BoundedReplanning == Len(stack) - 1 <= 3

\* C11: validate_task and execute_task always return a boolean: no verdict is
\* an exception, and no call of execute_tasks is left by one
C11_HandledFaultsNeverAbort ==
    \A frame \in Frames :
       /\ frame.phase # "raised"
       /\ \A k \in 1..Len(frame.verdicts) : frame.verdicts[k] \in {Valid, Rejected}
       /\ \A n \in 1..Len(frame.attempts) : frame.attempts[n].ret \in BOOLEAN

\* C14: whoever reads the state file finds a complete document, the one of
\* the previous save or the one of the save going on, also while save_state
\* is writing
C14_AtomicCheckpointWrites == ~Partial(state_file)

\* the state file names a project root that does not exist
RootMissing ==
    /\ state_file # <<>>
    /\ state_file[1].project_root # None
    /\ state_file[1].project_root \notin dirs

\* C12: a run without a command that finds a state file naming a missing
\* project root starts no iteration: it sends no request, runs no task and
\* returns asking for a command
C12_LoadGuardsMissingRoot ==
    [][(pc \in Stopped /\ RootMissing /\ state_file' = state_file)
          => /\ pc' = "exited"
             /\ stack' = <<>>
             /\ budget' = budget
             /\ lastRequest' = <<>>
             /\ fs' = fs]_vars

\* a run has exited on a state file, written for a command, whose project
\* root is gone
C12_Witness ==
    /\ pc = "exited"
    /\ RootMissing
    /\ state_file[1].command # None
    /\ self.project_root = state_file[1].project_root

\* C13: the handling of an interrupt writes the ProjectState of that moment
\* to the state file and ends the run; in and after it no task is attempted
\* and no request is sent
C13_InterruptHandling ==
    [][/\ (pc \in Running /\ pc' = "interrupted")
          => /\ state_file' = <<JsonDump(self)>>
             /\ self'.task_history = self.task_history
             /\ self'.task_results = self.task_results
             /\ stack' = stack
             /\ budget' = budget
             /\ lastRequest' = lastRequest
             /\ fs' = fs
       /\ pc = "interrupted"
          => /\ budget' = budget
             /\ fs' = fs
             /\ stack' = stack \/ stack' = <<>>]_vars

\* an interrupt was handled in the middle of a batch, after a task of it
\* was attempted and before its last one
C13_Witness ==
    /\ pc = "interrupted"
    /\ stack # <<>>
    /\ Top.phase = "exec"
    /\ Top.attempts # <<>>
    /\ Top.i < Len(Top.tasks)
    /\ state_file # <<>>
    /\ state_file[1].task_history = self.task_history

\* C15: an empty answer to the iteration's planning request leads to the
\* operator prompt, whose report is the one of that moment, and the run only
\* finishes from the prompt
C15_NoSilentCompletion ==
    [][/\ (pc = "loop" /\ pc' \notin {"loop", "exec", "interrupted"})
          => /\ pc' = "prompt"
             /\ report' = <<assess_project_completeness(self', fs', dirs')>>
             /\ report'[1].issues = assess_project_completeness(self, fs, dirs).issues
       /\ (pc' = "finished" /\ pc # "finished")
          => /\ pc = "prompt"
             /\ report = <<assess_project_completeness(self, fs, dirs)>>]_vars

\* a project was finalized after the second iteration's request was answered
\* with nothing while the report listed issues
C15_Witness ==
    /\ pc = "finished"
    /\ self.project_root # None
    /\ state_file = <<>>
    /\ lastRequest = <<Request(FALSE, <<>>)>>
    /\ self.current_iteration = 2
    /\ Len(self.task_history) = 2
    /\ report # <<>>
    /\ report[1].issues # <<>>

\* C16: when a call of execute_tasks reports failure (its batch failed
\* validation and the corrective batch was empty), no task of the iteration
\* has been executed and every enclosing call passes the failure on
C16_EmptyCorrectiveBatch ==
    \A k \in 1..Len(stack) :
       (stack[k].phase = "return" /\ ~stack[k].ret /\ stack[k].retries = 1)
          => /\ \A j \in 1..Len(stack) : stack[j].attempts = <<>>
             /\ \A j \in 1..(k - 1) : stack[j].phase = "await_retry"

\* C17: validate_task returns rejected for every create_file or
\* install_dependency task whose feature is in Features, and rejects no
\* task of another action for its feature
C17_RedundancyRejection ==
    \A frame \in Frames :
       JustValidated(frame) =>
          \A k \in 1..Len(frame.verdicts) :
             LET task == frame.tasks[k]
                 redundant == /\ task.action \in {"create_file", "install_dependency"}
                              /\ task.feature \in Range(self.features)
             IN  /\ redundant => frame.verdicts[k] = Rejected
                 /\ (~redundant /\ frame.verdicts[k] = Rejected)
                       => validate_task([task EXCEPT !.feature = None], k - 1,
                                        frame.tasks, self, fs, linters, FALSE) # Valid

\* the inputs that differ from the state's in one more item being true: a
\* main source file, a test file, a passing test result, all lint results
\* passing or fixed, one more catalog feature implemented
Improvements ==
    LET input(ag, files, ds) == [self |-> ag, fs |-> files, dirs |-> ds]
        root == self.project_root
        main == IF self.language = "python" THEN "proj/app.py" ELSE "proj/app.js"
        lints == self.linting_results
    IN  (IF root = None THEN {}
         ELSE {input(self, [fs EXCEPT ![main] = "v1"], dirs \cup {root}),
               input(self, [fs EXCEPT !["proj/test_app.py"] = "v1"], dirs \cup {root})})
        \cup {input([self EXCEPT !.test_results = Append(@, <<"test_app.py", "Passed">>)],
                    fs, dirs)}
        \cup {input([self EXCEPT !.linting_results =
                        [k \in 1..Len(lints) |->
                            IF LintPassed(lints[k]) THEN lints[k]
                            ELSE <<lints[k][1], lints[k][2], lints[k][3], "Passed">>]],
                    fs, dirs)}
        \cup {input([self EXCEPT !.features = Append(@, f)], fs, dirs) :
                  f \in Range(production_features) \ Range(self.features)}

\* C18: the score assess_project_completeness returned is not above the
\* score it returns when one more of the scored items is true and the other
\* inputs are the same
C18_ScoreMonotonicity ==
    report # <<>> =>
       \A better \in Improvements :
          assess_project_completeness(better.self, better.fs, better.dirs).score
             >= report[1].score

\* the assessment of a project with nothing to score: a root without files,
\* a failing test, a lint result with issues, no catalog feature; each of
\* the items raises its score
C18_Witness ==
    /\ report # <<>>
    /\ report[1].score = 0
    /\ self.project_root # None
    /\ self.test_results # <<>>
    /\ Cardinality(Improvements) >= 9
    /\ \A better \in Improvements :
          assess_project_completeness(better.self, better.fs, better.dirs).score
             > report[1].score

\* no element occurs twice in the list
NoDuplicates(lst) ==
    \A i, j \in 1..Len(lst) : lst[i] = lst[j] => i = j

\* C19: the score is an integer from 0 to 100 and the feature bonus is at
\* most 20, Features holding every tag once
C19_ScoreRange ==
    LET now == assess_project_completeness(self, fs, dirs)
        bonus == 4 * Len(Filter(self.features, Range(production_features)))
    IN  /\ now.score \in 0..100
        /\ bonus <= 4 * Len(production_features)
        /\ NoDuplicates(self.features)
        /\ report # <<>> => report[1].score \in 0..100

\* two tasks with the same feature tag were executed, and Features holds
\* the tag
C19_Witness ==
    /\ \E i, j \in 1..Len(self.task_history) :
          /\ i < j
          /\ self.task_history[i].success /\ self.task_history[j].success
          /\ self.task_history[i].action \in {"create_file", "create_test", "modify_file"}
          /\ self.task_history[j].action \in {"create_file", "create_test", "modify_file", "run_lint"}
          /\ FeatureOf(self.task_history[i].task) = FeatureOf(self.task_history[j].task)
          /\ FeatureOf(self.task_history[i].task) \in Range(self.features)
    /\ assess_project_completeness(self, fs, dirs).score >= 20

\* C20: the validation loop changes no field of ProjectState, and nothing
\* of the project's files
C20_ValidationLeavesState ==
    [][(/\ pc = "exec"
        /\ stack # <<>>
        /\ Top.phase = "validate"
        /\ Len(stack') = Len(stack)
        /\ stack'[Len(stack)].phase # "validate")
          => /\ self' = self
             /\ fs' = fs
             /\ dirs' = dirs
             /\ state_file' = state_file]_vars

\* a batch was validated, with one task accepted and another rejected, after
\* tasks had been executed
C20_Witness ==
    /\ \E frame \in Frames :
          /\ JustValidated(frame)
          /\ Valid \in Range(frame.verdicts)
          /\ Rejected \in Range(frame.verdicts)
    /\ self.task_history # <<>>

\* the task of attempt n depends on its own index or on a higher one
ForwardDependency(frame, n) ==
    LET i == frame.attempts[n].index
        task == frame.tasks[i + 1]
    IN  \E d \in 1..Len(task.depends_on) : task.depends_on[d] >= i

\* C21: in every batch, after whatever batches ran before it, a task that
\* depends on its own index or on a higher one is never executed: its
\* attempt dispatches no action and returns false
C21_ForwardDependencyNeverMet ==
    \A frame \in Frames :
       \A n \in 1..Len(frame.attempts) :
          ForwardDependency(frame, n) =>
             /\ ~frame.attempts[n].dispatched
             /\ ~frame.attempts[n].ret

\* C23: a modify_file task whose content differs from the content of the
\* file at its path is not rejected as a no-op: when validation rejects it,
\* it rejects it with no hash on record as well
C23_NoOpIsAboutTheWrite ==
    \A frame \in Frames :
       JustValidated(frame) =>
          \A k \in 1..Len(frame.verdicts) :
             LET task == frame.tasks[k]
             IN  (/\ task.action = "modify_file"
                  /\ FileAt(fs, task.path) # NoFile
                  /\ task.content # FileAt(fs, task.path)
                  /\ frame.verdicts[k] = Rejected)
                 => validate_task(task, k - 1, frame.tasks,
                                  [self EXCEPT !.file_hashes = <<>>], fs, linters, FALSE)
                       = Rejected

\* C26: when the main loop is at its head after an iteration in which tasks
\* were executed, the checkpoint file holds the history of these tasks
C26_CheckpointClosesIteration ==
    (pc = "loop" /\ self.task_history # <<>>) =>
       /\ state_file # <<>>
       /\ state_file[1].task_history = self.task_history
       /\ state_file[1].created_files = self.created_files

\* a step in which execute_task is called and returns
TaskStep ==
    /\ pc = "exec"
    /\ stack # <<>>
    /\ Top.phase = "exec"
    /\ Len(stack') = Len(stack)
    /\ Len(stack'[Len(stack)].attempts) = Len(Top.attempts) + 1

\* C27: every call of execute_task that records a result appends exactly one
\* history entry, with the index and the success value of the result
C27_ResultsAndHistoryAgree ==
    [][TaskStep =>
          LET i == Top.i
              entry == self'.task_history[Len(self'.task_history)]
          IN  /\ IntKey(i) \in DOMAIN self'.task_results
              /\ Len(self'.task_history) = Len(self.task_history) + 1
              /\ entry.index = i
              /\ entry.success = self'.task_results[IntKey(i)]
      ]_vars

\* C28: a call of execute_task that returns false leaves every field of the
\* agent but task_history and task_results as it was
C28_FailureChangesLogAndResultOnly ==
    [][(TaskStep /\ ~stack'[Len(stack)].attempts[Len(Top.attempts) + 1].ret) =>
          /\ [self' EXCEPT !.task_history = <<>>, !.task_results = <<>>]
                = [self EXCEPT !.task_history = <<>>, !.task_results = <<>>]
          /\ self'.task_results = DictSet(self.task_results, IntKey(Top.i), FALSE)
          /\ Len(self'.task_history) = Len(self.task_history) + 1
          /\ SubSeq(self'.task_history, 1, Len(self.task_history)) = self.task_history
      ]_vars

\* the attempts 1..n of the call that returned false
FailedAttempts(frame, n) == {m \in 1..n : ~frame.attempts[m].ret}

\* C22: an attempt in which an external tool of the task returned a
\* non-zero status or raised returns false, and the call has sent a recovery
\* request for every failed attempt, or is about to send the one for its
\* last attempt
C22_ToolFailureIsExecutionFault ==
    \A frame \in Frames :
       \A n \in 1..Len(frame.attempts) :
          frame.attempts[n].tool_failed =>
             /\ ~frame.attempts[n].ret
             /\ frame.recoveries >=
                   Cardinality(FailedAttempts(frame, n))
                     - (IF frame.phase = "recover" /\ n = Len(frame.attempts)
                        THEN 1 ELSE 0)

\* C24: the feature of every create_file or install_dependency task that
\* succeeded is in the agent's features
C24_SuccessRegistersFeature ==
    \A k \in 1..Len(self.task_history) :
       LET entry == self.task_history[k]
       IN  (entry.success /\ entry.action \in {"create_file", "install_dependency"})
              => FeatureOf(entry.task) \in Range(self.features)

\* C29: a batch is executed only after all its tasks were found valid, and
\* the verdict of every task is the one validate_task returns against the
\* state before the batch (with the linter installed or not installable),
\* whatever the tasks before it in the batch would do
C29_ValidationSeesPreBatchState ==
    \A frame \in Frames :
       /\ frame.attempts # <<>> =>
             /\ Len(frame.verdicts) = Len(frame.tasks)
             /\ \A k \in 1..Len(frame.verdicts) : frame.verdicts[k] = Valid
       /\ JustValidated(frame) =>
             \A k \in 1..Len(frame.verdicts) :
                LET task == frame.tasks[k]
                IN  frame.verdicts[k] \in
                       {validate_task(task, k - 1, frame.tasks, self, fs, linters, TRUE),
                        validate_task(task, k - 1, frame.tasks, self, fs, {}, FALSE)}

\* two create_file tasks of one batch with the same new feature were both
\* executed, and the batch [set_language nodejs, run_lint with eslint] has
\* just been rejected for its lint under the language python
C29_Witness ==
    /\ stack # <<>>
    /\ JustValidated(Top)
    /\ Top.tasks = <<setNode, lintEslint>>
    /\ Top.verdicts = <<Valid, Rejected>>
    /\ Top.phase = "retry"
    /\ self.language = "python"
    /\ Len(self.task_history) = 2
    /\ self.task_history[1].task = createA /\ self.task_history[1].success
    /\ self.task_history[2].task = createB /\ self.task_history[2].success
    /\ self.features = <<"docker">>

\* the aggregates of a checkpoint document are backed by its history: every
\* created file and every feature by the success entry of a task that wrote
\* or introduced it, every test result by the entry of a run_test task
WholeTasksOnly(doc) ==
    /\ \A k \in 1..Len(doc.created_files) :
          \E h \in 1..Len(doc.task_history) :
             /\ doc.task_history[h].success
             /\ doc.task_history[h].task.path = doc.created_files[k]
    /\ \A k \in 1..Len(doc.features) :
          \E h \in 1..Len(doc.task_history) :
             /\ doc.task_history[h].success
             /\ FeatureOf(doc.task_history[h].task) = doc.features[k]
    /\ Len(doc.test_results) <=
          Cardinality({h \in 1..Len(doc.task_history) :
                          doc.task_history[h].action = "run_test"})

\* C25: no checkpoint holds the aggregate update of a task without the
\* task's history entry
C25_CheckpointsAtStepBoundaries ==
    state_file # <<>> => WholeTasksOnly(state_file[1])

\* C30: a completeness report with is_complete true has the score 100 and no
\* missing feature
C30_CompleteMeansFullScore ==
    (report # <<>> /\ report[1].is_complete) =>
       /\ report[1].score = 100
       /\ report[1].missing_features = <<>>

\* a project with all the catalog's features, a main file, a test file, a
\* passing test and clean lint was assessed and reported complete
C30_Witness ==
    /\ report # <<>>
    /\ report[1].is_complete
    /\ report[1].issues = <<>>
    /\ self.features = production_features
    /\ self.test_results # <<>>

\* C31: when execute_tasks returns for a batch that was executed, the result
\* on record under each of its indices is what execute_task returned for the
\* batch's own task at that index
C31_RecoveryKeepsBatchResults ==
    \A frame \in Frames :
       (Returning(frame) /\ frame.attempts # <<>>) =>
          \A n \in 1..Len(frame.attempts) :
             LET key == IntKey(frame.attempts[n].index)
             IN  /\ key \in DOMAIN self.task_results
                 /\ self.task_results[key] = frame.attempts[n].ret

\* the batch of the call passed validation
PassedValidation(frame) ==
    /\ Len(frame.verdicts) = Len(frame.tasks)
    /\ \A k \in 1..Len(frame.verdicts) : frame.verdicts[k] = Valid

\* what holds of every call of execute_tasks that is about to return: a call
\* whose batch passed validation returns true; a call that returns false
\* had its batch rejected, made no attempt, leaves the history and the file
\* system's record as they were when it was made, and the last request sent
\* was a corrective one
ReturnMeaning ==
    \A frame \in Frames :
       Returning(frame) =>
          /\ PassedValidation(frame) => ReturnValue(frame)
          /\ ~ReturnValue(frame) =>
                /\ Rejected \in Range(frame.verdicts)
                /\ frame.attempts = <<>>
                /\ frame.retries = 1
                /\ frame.recoveries = 0
                /\ Len(self.task_history) = frame.entered
                /\ lastRequest = <<Request(TRUE, <<>>)>>

\* the corrective request of the call on top is answered with the empty batch
EmptyCorrectiveStep ==
    /\ pc = "exec"
    /\ stack # <<>>
    /\ Top.phase = "retry"
    /\ pc' = "exec"
    /\ stack' # stack
    /\ Len(stack') = Len(stack)

\* the corrective batch's call returns to the call that requested it
CorrectiveReturnStep ==
    /\ pc = "exec"
    /\ Len(stack) > 1
    /\ Len(stack') = Len(stack) - 1
    /\ stack[Len(stack) - 1].phase = "await_retry"

\* C32: execute_tasks returns false exactly when its chain of corrective
\* batches ended in an empty batch, and then no task was executed during the
\* call; it returns true when a batch of the chain passed validation: the
\* empty answer makes the call return false, a call returns what its
\* corrective batch's call returned, and every returning call satisfies
\* ReturnMeaning
C32_ExecuteTasksReturnValue ==
    [][/\ ReturnMeaning'
       /\ EmptyCorrectiveStep =>
             /\ Returning(stack'[Len(stack)])
             /\ ~ReturnValue(stack'[Len(stack)])
       /\ CorrectiveReturnStep =>
             /\ Returning(stack'[Len(stack')])
             /\ ReturnValue(stack'[Len(stack')]) = ReturnValue(Top)
             /\ ReturnValue(Top) =>
                   (PassedValidation(Top) \/ Top.retries = 1)
      ]_vars

\* the first batch and the corrective batch requested for it were both
\* rejected, the second corrective request was answered with the empty
\* batch, and the outermost call is about to return false with no task
\* executed
C32_Witness ==
    /\ pc = "exec"
    /\ Len(stack) = 1
    /\ Top.phase = "return"
    /\ ~Top.ret
    /\ Top.retries = 1
    /\ budget = MaxReplanCalls - 2
    /\ self.current_iteration = 1
    /\ self.task_history = <<>>

============================================================================
